---- MODULE Spec2Model ----
(***************************************************************************)
(* RRBAC (Resource and Role Hierarchy Based Access Control), src/rrbac.js. *)
(* Resource objects form a containment tree and carry rwp / erwp maps and  *)
(* the acpn / accn shortcut pointers; Role objects form a seniority graph; *)
(* RRBACSystem.permissionAssignment, propagateRwp and canAccess work on    *)
(* both.  Every method runs to completion (single-threaded JavaScript), so *)
(* every action below is one whole method call.                            *)
(***************************************************************************)
EXTENDS Integers, Sequences, FiniteSets, TLC

\* ------------------------------------------------------------------ bounds
NumNodes == 3
NumRoles == 3
MaxAssign == 3
MaxEdges == 2
MaxAssignQuery == 2
MaxRoleEdges == 4

Nodes == 1..NumNodes
Roles == 1..NumRoles
Actions == {"read", "write"}
\* JavaScript null for a Resource reference
NoNode == 0
\* placeholder of the record fields an operation does not use
NoRole == NoNode
NoAction == "none"

VARIABLES
  parent,     \* Resource.parent   : node -> node or NoNode
  children,   \* Resource.children : node -> sequence of nodes (array order)
  rwp,        \* Resource.rwp      : node -> Map action -> Set of roles
  erwp,       \* Resource.erwp     : node -> Map action -> Set of roles
  acpn,       \* Resource.acpn     : node -> node or NoNode
  accn,       \* Resource.accn     : node -> Set of nodes, in insertion order
  parents,    \* Role.parents      : role -> Set of roles, in insertion order
  rchildren,  \* Role.children     : role -> Set of roles
  resourceRoot, \* RRBACSystem.resourceRoot, NoNode while no system is constructed
  last,       \* the call that was made last, with what it observed
  edited      \* a senior edge was added after some permission was assigned

resourceVars == <<parent, children>>
roleVars == <<parents, rchildren>>
permVars == <<rwp, erwp, acpn, accn>>
vars == <<parent, children, rwp, erwp, acpn, accn, parents, rchildren, resourceRoot, last, edited>>

\* ----------------------------------------------------------- JS collections
Range(s) == {s[i] : i \in 1..Len(s)}

\* Set.prototype.add on a Set kept in insertion order
SetAdd(s, x) == IF x \in Range(s) THEN s ELSE Append(s, x)

\* new Map()
EmptyMap == [a \in {} |-> {}]

\* map.get(action) || new Set()  /  map.get(action)?.has(role)
MapGet(map, action) == IF action \in DOMAIN map THEN map[action] ELSE {}

\* an add that puts the roles under the action and under every other key
\* the map already has
MapAddAllEveryKey(map, action, roles) ==
  [a \in DOMAIN map \cup {action} |-> MapGet(map, a) \cup roles]

\* if (!map.has(action)) map.set(action, new Set()); then add every role of roles
MapAddAll(map, action, roles) ==
  [a \in DOMAIN map \cup {action} |->
     IF a = action THEN MapGet(map, action) \cup roles ELSE map[a]]

\* ------------------------------------------------------------ Resource tree
\* Resource.traverseSubtree: breadth-first order of the subtree of the queue's nodes
RECURSIVE traverseLoop(_, _)
traverseLoop(queue, visited) ==
  IF queue = <<>> THEN visited
  ELSE LET currentNode == Head(queue)
       IN traverseLoop(Tail(queue) \o children[currentNode], Append(visited, currentNode))

traverseSubtree(node) == traverseLoop(<<node>>, <<>>)

\* the nodes the re-parenting loop of permissionAssignment visits
RECURSIVE visitedBelowLoop(_, _)
visitedBelowLoop(kids, acc) ==
  IF kids = <<>> THEN acc
  ELSE visitedBelowLoop(Tail(kids), acc \cup Range(traverseSubtree(Head(kids))))

visitedBelow(resourceNode) == visitedBelowLoop(children[resourceNode], {})

\* ----------------------------------------------------------- Role hierarchy
GetAncestorsFuel == NumRoles * (NumRoles + 1)

\* getAncestors that collects the direct seniors only (never queues current.parents)
RECURSIVE getAncestorsLoopDirect(_, _, _)
getAncestorsLoopDirect(queue, ancestors, fuel) ==
  IF queue = <<>> THEN [done |-> TRUE, ancestors |-> ancestors]
  ELSE IF fuel = 0 THEN [done |-> FALSE, ancestors |-> ancestors]
  ELSE getAncestorsLoopDirect(Tail(queue), ancestors \cup {Head(queue)}, fuel - 1)

\* getAncestors without the visited check (queues current.parents every time)
RECURSIVE getAncestorsLoopNoVisited(_, _, _)
getAncestorsLoopNoVisited(queue, ancestors, fuel) ==
  IF queue = <<>> THEN [done |-> TRUE, ancestors |-> ancestors]
  ELSE IF fuel = 0 THEN [done |-> FALSE, ancestors |-> ancestors]
  ELSE LET current == Head(queue)
       IN getAncestorsLoopNoVisited(Tail(queue) \o parents[current],
                                    ancestors \cup {current}, fuel - 1)

\* Role.getAncestors: the while loop over the queue, at most fuel iterations
RECURSIVE getAncestorsLoop(_, _, _)
getAncestorsLoop(queue, ancestors, fuel) ==
  IF queue = <<>> THEN [done |-> TRUE, ancestors |-> ancestors]
  ELSE IF fuel = 0 THEN [done |-> FALSE, ancestors |-> ancestors]
  ELSE LET current == Head(queue)
       IN IF current \notin ancestors
          THEN getAncestorsLoop(Tail(queue) \o parents[current],
                                ancestors \cup {current}, fuel - 1)
          ELSE getAncestorsLoop(Tail(queue), ancestors, fuel - 1)

\* getAncestors whose set already holds the role itself when the loop starts
getAncestorsRunSeeded(role) == getAncestorsLoop(parents[role], {role}, GetAncestorsFuel)

getAncestorsRun(role) == getAncestorsLoop(parents[role], {}, GetAncestorsFuel)

getAncestors(role) == getAncestorsRun(role).ancestors

\* ------------------------------------------------------------ Access engine
PropagateFuel == NumNodes

\* RRBACSystem.propagateRwp, on the erwp maps e and the accn sets cn; the
\* recursion goes at most fuel calls deep
RECURSIVE propagateRwp(_, _, _, _, _, _)
RECURSIVE propagateAll(_, _, _, _, _, _)
propagateRwp(e, cn, resourceNode, newRwp, action, fuel) ==
  LET originalErwp == MapGet(e[resourceNode], action)
      e1 == [e EXCEPT ![resourceNode] = MapAddAll(@, action, newRwp)]
  IN IF Cardinality(e1[resourceNode][action]) > Cardinality(originalErwp)
     THEN propagateAll(e1, cn, cn[resourceNode], newRwp, action, fuel)
     ELSE [done |-> TRUE, erwp |-> e1]

\* the for loop of propagateRwp over resourceNode.accn
propagateAll(e, cn, kids, newRwp, action, fuel) ==
  IF kids = <<>> THEN [done |-> TRUE, erwp |-> e]
  ELSE IF fuel = 0 THEN [done |-> FALSE, erwp |-> e]
  ELSE LET first == propagateRwp(e, cn, Head(kids), newRwp, action, fuel - 1)
           rest == propagateAll(first.erwp, cn, Tail(kids), newRwp, action, fuel)
       IN [done |-> first.done /\ rest.done, erwp |-> rest.erwp]

CanAccessFuel == NumNodes + 1

\* canAccess that looks the role up under every action of erwp
RECURSIVE canAccessLoopAnyAction(_, _, _, _)
canAccessLoopAnyAction(role, currentNode, action, fuel) ==
  IF currentNode = NoNode THEN [done |-> TRUE, result |-> FALSE]
  ELSE IF fuel = 0 THEN [done |-> FALSE, result |-> FALSE]
  ELSE IF \E a \in DOMAIN erwp[currentNode] : role \in erwp[currentNode][a]
       THEN [done |-> TRUE, result |-> TRUE]
       ELSE canAccessLoopAnyAction(role, acpn[currentNode], action, fuel - 1)

\* RRBACSystem.canAccess: the while loop up the acpn chain, at most fuel iterations
RECURSIVE canAccessLoop(_, _, _, _)
canAccessLoop(role, currentNode, action, fuel) ==
  IF currentNode = NoNode THEN [done |-> TRUE, result |-> FALSE]
  ELSE IF fuel = 0 THEN [done |-> FALSE, result |-> FALSE]
  ELSE IF role \in MapGet(erwp[currentNode], action)
       THEN [done |-> TRUE, result |-> TRUE]
       ELSE canAccessLoop(role, acpn[currentNode], action, fuel - 1)

canAccessRun(role, resource, action) == canAccessLoop(role, resource, action, CanAccessFuel)

canAccess(role, resource, action) == canAccessRun(role, resource, action).result

\* ------------------------------------------------------------ derived facts
\* strict containment ancestors of a node
RECURSIVE AncestorsOf(_)
AncestorsOf(n) == IF parent[n] = NoNode THEN {} ELSE {parent[n]} \cup AncestorsOf(parent[n])

\* strict containment descendants of a node
DescendantsOf(n) == {m \in Nodes : n \in AncestorsOf(m)}

\* the node carries an explicit permission, for any action
HasExplicit(n) == DOMAIN rwp[n] # {}

\* the nearest strict containment ancestor with an explicit permission, or NoNode
RECURSIVE NearestBoundaryAbove(_)
NearestBoundaryAbove(n) ==
  IF parent[n] = NoNode THEN NoNode
  ELSE IF HasExplicit(parent[n]) THEN parent[n]
  ELSE NearestBoundaryAbove(parent[n])

\* the nearest strict containment descendants with an explicit permission
NearestBoundariesBelow(n) ==
  {m \in DescendantsOf(n) : HasExplicit(m) /\ NearestBoundaryAbove(m) = n}

\* the roles reached from a role by one or more senior edges
RECURSIVE SeniorClosure(_, _)
SeniorClosure(S, k) ==
  IF k = 0 THEN S
  ELSE SeniorClosure(S \cup UNION {Range(parents[r]) : r \in S}, k - 1)

Seniors(role) == SeniorClosure(Range(parents[role]), NumRoles)

\* the nodes reached from a node by one or more accn links
RECURSIVE AccnClosure(_, _)
AccnClosure(S, k) ==
  IF k = 0 THEN S
  ELSE AccnClosure(S \cup UNION {Range(accn[n]) : n \in S}, k - 1)

AccnBelow(n) == AccnClosure(Range(accn[n]), NumNodes)

\* the (resource, action, role) triples granted so far, and their number
Grants == {g \in Nodes \X Actions \X Roles : g[3] \in MapGet(rwp[g[1]], g[2])}

NumGrants == Cardinality(Grants)

\* the number of senior edges
NumEdges == Cardinality({e \in Roles \X Roles : e[2] \in Range(parents[e[1]])})

\* -------------------------------------------------------------------- state
Call(op, node, role, action) ==
  [op |-> op, node |-> node, role |-> role, action |-> action,
   noop |-> FALSE, wasEmpty |-> FALSE, originalAcpn |-> NoNode,
   done |-> TRUE, result |-> FALSE]

Init ==
  /\ parent = [n \in Nodes |-> NoNode]
  /\ children = [n \in Nodes |-> <<>>]
  /\ rwp = [n \in Nodes |-> EmptyMap]
  /\ erwp = [n \in Nodes |-> EmptyMap]
  /\ acpn = [n \in Nodes |-> NoNode]
  /\ accn = [n \in Nodes |-> <<>>]
  /\ parents = [r \in Roles |-> <<>>]
  /\ rchildren = [r \in Roles |-> {}]
  /\ resourceRoot = NoNode
  /\ last = Call("new", NoNode, NoRole, NoAction)
  /\ edited = FALSE

\* Resource.addChild
AddChild(p, c) ==
  /\ parent' = [parent EXCEPT ![c] = p]
  /\ children' = [children EXCEPT ![p] = Append(@, c)]
  /\ last' = Call("addChild", NoNode, NoRole, NoAction)
  /\ UNCHANGED <<rwp, erwp, acpn, accn, parents, rchildren, resourceRoot, edited>>

\* addParent that also hands the new senior every effective permission the
\* junior role holds
AddParentRetroactive(role, parentRole) ==
  /\ parents' = [parents EXCEPT ![role] = SetAdd(@, parentRole)]
  /\ rchildren' = [rchildren EXCEPT ![parentRole] = @ \cup {role}]
  /\ erwp' = [n \in Nodes |->
               [a \in DOMAIN erwp[n] |->
                 IF role \in erwp[n][a] THEN erwp[n][a] \cup {parentRole}
                 ELSE erwp[n][a]]]
  /\ last' = Call("addParent", NoNode, NoRole, NoAction)
  /\ edited' = (edited \/ NumGrants > 0)
  /\ UNCHANGED <<parent, children, rwp, acpn, accn, resourceRoot>>

\* Role.addParent
AddParent(role, parentRole) ==
  /\ parents' = [parents EXCEPT ![role] = SetAdd(@, parentRole)]
  /\ rchildren' = [rchildren EXCEPT ![parentRole] = @ \cup {role}]
  /\ last' = Call("addParent", NoNode, NoRole, NoAction)
  /\ edited' = (edited \/ NumGrants > 0)
  /\ UNCHANGED <<parent, children, rwp, erwp, acpn, accn, resourceRoot>>

\* The caller builds the resource tree before it constructs the system over
\* it.  Resources are numbered in creation order and a resource is attached,
\* once, under one created before it, so the tree stays a tree.
BuildTree ==
  \E p \in Nodes, c \in Nodes :
    /\ resourceRoot = NoNode
    /\ p < c
    /\ parent[c] = NoNode
    /\ AddChild(p, c)

\* The caller links the roles before it constructs the system: at most
\* MaxEdges senior edges, cycles included, no role its own senior.
BuildRoles ==
  \E role \in Roles, parentRole \in Roles :
    /\ resourceRoot = NoNode
    /\ NumEdges < MaxEdges
    /\ role # parentRole
    /\ parentRole \notin Range(parents[role])
    /\ AddParent(role, parentRole)

\* new RRBACSystem(resourceRoot, roles), over the finished resource tree
Construct ==
  \E root \in Nodes :
    /\ resourceRoot = NoNode
    /\ Range(traverseSubtree(root)) = Nodes
    /\ resourceRoot' = root
    /\ last' = Call("new", NoNode, NoRole, NoAction)
    /\ UNCHANGED <<parent, children, rwp, erwp, acpn, accn, parents, rchildren, edited>>

\* the rewiring that leaves resourceNode.acpn as it was
acpnAfterRewireKeepOwn(resourceNode) ==
  LET originalAcpn == acpn[resourceNode]
      below == visitedBelow(resourceNode)
  IN [m \in Nodes |->
        IF m \in below /\ acpn[m] = originalAcpn THEN resourceNode ELSE acpn[m]]

\* the rewiring that does not re-parent the descendants
acpnAfterRewireNoReparent(resourceNode) ==
  [m \in Nodes |-> IF m = resourceNode THEN NoNode ELSE acpn[m]]

\* acpn of every node after the wasEmpty branch of permissionAssignment:
\* resourceNode.acpn = null, then every visited node whose acpn is strictly
\* equal to originalAcpn (null included) points to resourceNode.  The loop
\* visits each strict descendant once and tests only that node's own acpn.
acpnAfterRewire(resourceNode) ==
  LET originalAcpn == acpn[resourceNode]
      below == visitedBelow(resourceNode)
  IN [m \in Nodes |->
        IF m = resourceNode THEN NoNode
        ELSE IF m \in below /\ acpn[m] = originalAcpn THEN resourceNode
        ELSE acpn[m]]

\* the rewiring that links the wrong way round: resourceNode.accn.add(originalAcpn)
accnAfterRewireReversed(resourceNode) ==
  LET originalAcpn == acpn[resourceNode]
  IN IF originalAcpn # NoNode
     THEN [accn EXCEPT ![resourceNode] = SetAdd(@, originalAcpn)]
     ELSE accn

\* accn of every node after the wasEmpty branch: originalAcpn.accn.add(resourceNode)
accnAfterRewire(resourceNode) ==
  LET originalAcpn == acpn[resourceNode]
  IN IF originalAcpn # NoNode
     THEN [accn EXCEPT ![originalAcpn] = SetAdd(@, resourceNode)]
     ELSE accn

\* permissionAssignment without the early return, rewiring on every call
permissionAssignmentRewireAlways(resourceNode, role, action) ==
  LET rolesForAction == MapGet(rwp[resourceNode], action)
      run == getAncestorsRun(role)
      newRwp == {role} \cup run.ancestors
      acpn1 == acpnAfterRewire(resourceNode)
      accn1 == accnAfterRewire(resourceNode)
      prop == propagateRwp(erwp, accn1, resourceNode, newRwp, action, PropagateFuel)
  IN /\ acpn' = acpn1
     /\ accn' = accn1
     /\ rwp' = [rwp EXCEPT ![resourceNode] = MapAddAll(@, action, {role})]
     /\ erwp' = prop.erwp
     /\ last' = IF role \in rolesForAction
                THEN [Call("assign", NoNode, NoRole, NoAction) EXCEPT !.noop = TRUE]
                ELSE [Call("assign", resourceNode, role, action) EXCEPT
                        !.wasEmpty = DOMAIN rwp[resourceNode] = {},
                        !.done = run.done /\ prop.done]
     /\ UNCHANGED <<parent, children, parents, rchildren, resourceRoot, edited>>

\* permissionAssignment that takes the first permission per action
\* (wasEmpty = !resourceNode.rwp.has(action))
permissionAssignmentPerAction(resourceNode, role, action) ==
  LET rolesForAction == MapGet(rwp[resourceNode], action)
      wasEmpty == action \notin DOMAIN rwp[resourceNode]
      run == getAncestorsRun(role)
      newRwp == {role} \cup run.ancestors
      acpn1 == IF wasEmpty THEN acpnAfterRewire(resourceNode) ELSE acpn
      accn1 == IF wasEmpty THEN accnAfterRewire(resourceNode) ELSE accn
      prop == propagateRwp(erwp, accn1, resourceNode, newRwp, action, PropagateFuel)
  IN /\ \/ /\ role \in rolesForAction
           /\ last' = [Call("assign", NoNode, NoRole, NoAction) EXCEPT !.noop = TRUE]
           /\ UNCHANGED <<rwp, erwp, acpn, accn>>
        \/ /\ role \notin rolesForAction
           /\ acpn' = acpn1
           /\ accn' = accn1
           /\ rwp' = [rwp EXCEPT ![resourceNode] = MapAddAll(@, action, {role})]
           /\ erwp' = prop.erwp
           /\ last' = [Call("assign", resourceNode, role, action) EXCEPT
                         !.wasEmpty = DOMAIN rwp[resourceNode] = {},
                         !.done = run.done /\ prop.done]
     /\ UNCHANGED <<parent, children, parents, rchildren, resourceRoot, edited>>

\* RRBACSystem.permissionAssignment
permissionAssignment(resourceNode, role, action) ==
  LET rolesForAction == MapGet(rwp[resourceNode], action)
      wasEmpty == DOMAIN rwp[resourceNode] = {}
      run == getAncestorsRun(role)
      newRwp == {role} \cup run.ancestors
      acpn1 == IF wasEmpty THEN acpnAfterRewire(resourceNode) ELSE acpn
      accn1 == IF wasEmpty THEN accnAfterRewire(resourceNode) ELSE accn
      prop == propagateRwp(erwp, accn1, resourceNode, newRwp, action, PropagateFuel)
  IN /\ \/ /\ role \in rolesForAction
           /\ last' = [Call("assign", NoNode, NoRole, NoAction) EXCEPT !.noop = TRUE]
           /\ UNCHANGED <<rwp, erwp, acpn, accn>>
        \/ /\ role \notin rolesForAction
           /\ acpn' = acpn1
           /\ accn' = accn1
           /\ rwp' = [rwp EXCEPT ![resourceNode] = MapAddAll(@, action, {role})]
           /\ erwp' = prop.erwp
           /\ last' = [Call("assign", resourceNode, role, action) EXCEPT
                         !.wasEmpty = wasEmpty,
                         !.originalAcpn = IF wasEmpty THEN acpn[resourceNode] ELSE NoNode,
                         !.done = run.done /\ prop.done]
     /\ UNCHANGED <<parent, children, parents, rchildren, resourceRoot, edited>>

\* canAccess that creates the missing erwp entry of the queried action
canAccessCallCreatesEntry(role, resource, action) ==
  LET run == canAccessRun(role, resource, action)
  IN /\ last' = [Call("canAccess", NoNode, NoRole, NoAction) EXCEPT
                   !.done = run.done, !.result = run.result]
     /\ erwp' = [erwp EXCEPT ![resource] = MapAddAll(@, action, {})]
     /\ UNCHANGED <<parent, children, rwp, acpn, accn, parents, rchildren,
                    resourceRoot, edited>>

\* RRBACSystem.canAccess, called by the caller: the answer is recorded in last
canAccessCall(role, resource, action) ==
  LET run == canAccessRun(role, resource, action)
  IN /\ last' = [Call("canAccess", NoNode, NoRole, NoAction) EXCEPT
                   !.done = run.done, !.result = run.result]
     /\ UNCHANGED <<parent, children, rwp, erwp, acpn, accn, parents, rchildren,
                    resourceRoot, edited>>

\* The caller assigns permissions through the constructed system; at most
\* MaxAssign triples are granted (a repeated grant is always allowed).
Assign ==
  \E resourceNode \in Nodes, role \in Roles, action \in Actions :
    /\ resourceRoot # NoNode
    /\ role \in MapGet(rwp[resourceNode], action) \/ NumGrants < MaxAssign
    /\ permissionAssignment(resourceNode, role, action)

\* The same with at most MaxAssignQuery granted triples.
AssignFew ==
  \E resourceNode \in Nodes, role \in Roles, action \in Actions :
    /\ resourceRoot # NoNode
    /\ role \in MapGet(rwp[resourceNode], action) \/ NumGrants < MaxAssignQuery
    /\ permissionAssignment(resourceNode, role, action)

\* The caller queries the constructed system.
CanAccess ==
  \E role \in Roles, resource \in Nodes, action \in Actions :
    /\ resourceRoot # NoNode
    /\ canAccessCall(role, resource, action)

\* The caller links roles in any order, a role to itself included, up to
\* MaxRoleEdges senior edges.
LinkRoles ==
  \E role \in Roles, parentRole \in Roles :
    /\ NumEdges < MaxRoleEdges
    /\ parentRole \notin Range(parents[role])
    /\ AddParent(role, parentRole)

\* role.getAncestors() called on its own: it changes no object
GetAncestors ==
  \E role \in Roles :
    /\ last' = [Call("getAncestors", NoNode, role, NoAction) EXCEPT
                  !.done = getAncestorsRun(role).done]
    /\ UNCHANGED <<parent, children, rwp, erwp, acpn, accn, parents, rchildren,
                   resourceRoot, edited>>

Next == BuildTree \/ BuildRoles \/ Construct \/ Assign

Spec == Init /\ [][Next]_vars

\* the same system with queries as steps
NextQuery == BuildTree \/ BuildRoles \/ Construct \/ AssignFew \/ CanAccess

SpecQuery == Init /\ [][NextQuery]_vars

\* ------------------------------------------------------------------ claims
\* The permission fields of all resources as one value
PermState == [rwp |-> rwp, erwp |-> erwp, acpn |-> acpn, accn |-> accn]

\* RRBACSystem.permissionAssignment as a function from the permission fields s
\* before the call to the permission fields after it
assignOn(s, resourceNode, role, action) ==
  LET rolesForAction == MapGet(s.rwp[resourceNode], action)
      wasEmpty == DOMAIN s.rwp[resourceNode] = {}
      originalAcpn == s.acpn[resourceNode]
      below == visitedBelow(resourceNode)
      acpn1 == IF wasEmpty
               THEN [m \in Nodes |->
                      IF m = resourceNode THEN NoNode
                      ELSE IF m \in below /\ s.acpn[m] = originalAcpn THEN resourceNode
                      ELSE s.acpn[m]]
               ELSE s.acpn
      accn1 == IF wasEmpty /\ originalAcpn # NoNode
               THEN [s.accn EXCEPT ![originalAcpn] = SetAdd(@, resourceNode)]
               ELSE s.accn
      newRwp == {role} \cup getAncestors(role)
      prop == propagateRwp(s.erwp, accn1, resourceNode, newRwp, action, PropagateFuel)
  IN IF role \in rolesForAction THEN s
     ELSE [rwp |-> [s.rwp EXCEPT ![resourceNode] = MapAddAll(@, action, {role})],
           erwp |-> prop.erwp, acpn |-> acpn1, accn |-> accn1]

\* RRBACSystem.canAccess on the permission fields s
RECURSIVE canAccessLoopOn(_, _, _, _, _)
canAccessLoopOn(s, role, currentNode, action, fuel) ==
  IF currentNode = NoNode \/ fuel = 0 THEN FALSE
  ELSE IF role \in MapGet(s.erwp[currentNode], action) THEN TRUE
  ELSE canAccessLoopOn(s, role, s.acpn[currentNode], action, fuel - 1)

canAccessOn(s, role, resource, action) ==
  canAccessLoopOn(s, role, resource, action, CanAccessFuel)

\* assignOn and canAccessOn compute what the permissionAssignment and
\* canAccess actions compute
OnAgrees ==
  [][/\ (last'.op = "assign" /\ ~last'.noop) =>
          PermState' = assignOn(PermState, last'.node, last'.role, last'.action)
     /\ (last'.op = "assign" /\ last'.noop) => PermState' = PermState
     /\ \A q \in Roles, m \in Nodes, Y \in Actions :
          canAccessOn(PermState, q, m, Y) = canAccess(q, m, Y)]_vars

\* The caller adds a senior edge while the system is in use
EditRoles ==
  \E role \in Roles, parentRole \in Roles :
    /\ resourceRoot # NoNode
    /\ NumEdges < MaxEdges
    /\ role # parentRole
    /\ parentRole \notin Range(parents[role])
    /\ AddParent(role, parentRole)

\* The system with role edits between the assignments
NextEdit == BuildTree \/ BuildRoles \/ Construct \/ AssignFew \/ EditRoles

SpecEdit == Init /\ [][NextEdit]_vars

\* The role graph alone: roles are linked and getAncestors is called
NextRoles == LinkRoles \/ GetAncestors

SpecRoles == Init /\ [][NextRoles]_vars

LastAssigned == last.op = "assign" /\ ~last.noop

\* C1 (as claimed): whenever role r is in the explicit permissions of action X
\* at node n, r can access X at n and at every containment descendant of n,
\* whatever else was assigned before or after.
C1_DownwardPropagation ==
  \A n \in Nodes, X \in Actions :
    \A r \in MapGet(rwp[n], X) :
      \A m \in {n} \cup DescendantsOf(n) : canAccess(r, m, X)

\* C2: no access without a grant: a role can access X at m only if m or one of
\* its containment ancestors grants X explicitly to that role or to one of its
\* juniors (a role the querying role is reached from by senior edges).
C2_NoAccessWithoutGrant ==
  \A r \in Roles, m \in Nodes, X \in Actions :
    canAccess(r, m, X) =>
      \E n \in {m} \cup AncestorsOf(m) :
        \E g \in MapGet(rwp[n], X) : r = g \/ r \in Seniors(g)

\* C2 witness: a senior of the granted role reaches the grant from a descendant
\* of the granting node, while a junior of the granted role is denied there and
\* the granted role is denied another action and the node above.
C2_Witness ==
  \E n \in Nodes, X \in Actions, Y \in Actions :
    \E g \in MapGet(rwp[n], X), m \in DescendantsOf(n) :
      \E r \in Seniors(g) \ {g}, j \in Roles \ {g} :
        /\ X # Y
        /\ canAccess(r, m, X)
        /\ g \in Seniors(j) /\ j \notin Seniors(g) /\ ~canAccess(j, m, X)
        /\ ~canAccess(g, m, Y)
        /\ parent[n] # NoNode /\ ~canAccess(g, parent[n], X)

\* C3: with the role hierarchy fixed before any assignment, once role is
\* granted X at n every role reached from it by one or more senior edges can
\* access X at n, in this and in every later state.
C3_UpwardRoleClosure ==
  ~edited =>
    \A n \in Nodes, X \in Actions :
      \A role \in MapGet(rwp[n], X) :
        \A senior \in Seniors(role) : canAccess(senior, n, X)

\* C3 witness: a role with a transitive (not direct) senior was granted an
\* action, and further assignments were made afterwards.
C3_Witness ==
  /\ LastAssigned
  /\ \E n \in Nodes, X \in Actions :
      \E role \in MapGet(rwp[n], X) :
        /\ <<n, X, role>> # <<last.node, last.action, last.role>>
        /\ \E senior \in Seniors(role) \ (Range(parents[role]) \cup {role}) :
             canAccess(senior, n, X)

\* C4 (as claimed): every node that carries an explicit permission has no acpn.
C4_BoundaryHasNoAcpn ==
  \A n \in Nodes : HasExplicit(n) => acpn[n] = NoNode

C6_Idempotence ==
  [][(last'.op = "assign" /\ last'.noop) => UNCHANGED <<rwp, erwp, acpn, accn>>]_vars

\* C6 witness: a repeated assign was made on a tree with shortcuts in place.
C6_Witness ==
  /\ last.op = "assign" /\ last.noop
  /\ \E n \in Nodes : accn[n] # <<>>
  /\ \E n \in Nodes : HasExplicit(n) /\ acpn[n] # NoNode

\* C7: getAncestors, permissionAssignment and canAccess end within their loop
\* bounds on every role graph, cyclic or not, and two roles that are senior
\* of each other get each other's permissions.
C7_CycleSafety ==
  /\ \A r \in Roles : getAncestorsRun(r).done
  /\ \A q \in Roles, n \in Nodes, X \in Actions : canAccessRun(q, n, X).done
  /\ last.done
  /\ \A A \in Roles, B \in Roles :
       (A # B /\ B \in Range(parents[A]) /\ A \in Range(parents[B])) =>
         \A n \in Nodes, X \in Actions :
           A \in MapGet(rwp[n], X) => canAccess(B, n, X)

\* C7 witness: with a 2-cycle between A and B, A alone was granted an action
\* at a node and a query has answered true.
C7_Witness ==
  /\ last.op = "canAccess" /\ last.done /\ last.result
  /\ \E A \in Roles, B \in Roles :
       /\ A # B /\ B \in Range(parents[A]) /\ A \in Range(parents[B])
       /\ \E n \in Nodes, X \in Actions :
            /\ A \in MapGet(rwp[n], X)
            /\ canAccess(B, n, X)
            /\ \A g \in Grants : g[3] = A

\* C8: a canAccess call changes neither the permission maps (no entry is
\* created), nor the shortcuts, nor the two hierarchies.
C8_CanAccessIsPure ==
  [][last'.op = "canAccess" =>
       UNCHANGED <<rwp, erwp, acpn, accn, parent, children, parents, rchildren>>]_vars

\* C8 witness: queries were answered where a node has no erwp entry at all
\* and another has one.
C8_Witness ==
  /\ last.op = "canAccess" /\ last.result
  /\ \E n \in Nodes : DOMAIN erwp[n] = {}
  /\ \E n \in Nodes : DOMAIN erwp[n] # {} /\ DOMAIN erwp[n] # Actions

\* C9: every node without explicit permissions has as acpn its nearest strict
\* containment ancestor that has explicit permissions, or none.
C9_TransparentAcpn ==
  \A m \in Nodes : ~HasExplicit(m) => acpn[m] = NearestBoundaryAbove(m)

\* C9 witness: an assignment made a node below a boundary a boundary itself,
\* and a transparent descendant was re-parented from the old one to it.
C9_Witness ==
  /\ LastAssigned /\ last.wasEmpty
  /\ last.originalAcpn # NoNode
  /\ \E m \in DescendantsOf(last.node) : ~HasExplicit(m) /\ acpn[m] = last.node

\* C10 (as claimed): the accn of every node with explicit permissions is
\* exactly the set of its nearest strict descendants with explicit permissions.
C10_AccnExact ==
  \A n \in Nodes : HasExplicit(n) => Range(accn[n]) = NearestBoundariesBelow(n)

\* C11: a non-null acpn is a strict containment ancestor of its node and every
\* member of an accn is a strict containment descendant of its node; the
\* climb of canAccess and the recursion of propagateRwp end within their
\* bounds.
C11_ShortcutsFollowContainment ==
  /\ \A n \in Nodes : acpn[n] # NoNode => acpn[n] \in AncestorsOf(n)
  /\ \A n \in Nodes : Range(accn[n]) \subseteq DescendantsOf(n)
  /\ \A q \in Roles, n \in Nodes, X \in Actions : canAccessRun(q, n, X).done
  /\ last.done

\* C11 witness: a later assignment at a boundary propagated through an accn
\* link that skips a node whose acpn is that boundary.
C11_Witness ==
  /\ LastAssigned /\ ~last.wasEmpty /\ last.done
  /\ \E c \in Range(accn[last.node]) :
       /\ parent[c] # last.node
       /\ acpn[parent[c]] = last.node
       /\ last.role \in MapGet(erwp[c], last.action)

\* C12 (as claimed): after an assignment that is not a no-op, the assigned
\* role and all its seniors are in erwp of the assigned action at the assigned
\* node and at every node reached from it through accn links.
C12_PropagationReachesSubtree ==
  LastAssigned =>
    \A m \in {last.node} \cup AccnBelow(last.node) :
      ({last.role} \cup Seniors(last.role)) \subseteq MapGet(erwp[m], last.action)

\* C13: an assignment at a node that already carries an explicit permission
\* leaves acpn and accn of every node unchanged; the shortcut pointers change
\* only in an assignment that gives a node its first explicit permission.
C13_RewiringOnlyOnFirst ==
  [][/\ (last'.op = "assign" /\ ~last'.noop /\ ~last'.wasEmpty) => UNCHANGED <<acpn, accn>>
     /\ (acpn' # acpn \/ accn' # accn) => (last'.op = "assign" /\ last'.wasEmpty)]_vars

\* C13 witness: a second permission, for another action, was assigned at a
\* boundary whose acpn is not null and that lies below a node that still has
\* the acpn it was given.
C13_Witness ==
  /\ LastAssigned /\ ~last.wasEmpty
  /\ Cardinality(DOMAIN rwp[last.node]) = 2
  /\ acpn[last.node] # NoNode
  /\ \E m \in DescendantsOf(last.node) : acpn[m] = last.node

\* C14: getAncestors returns exactly the roles reachable over one or more
\* senior edges; the role itself is in the result iff it lies on a seniority
\* cycle; the result depends on the set of edges only, not on the order in
\* which addParent inserted them; and the loop ends.
C14_AncestorClosureExact ==
  \A role \in Roles :
    /\ getAncestorsRun(role).done
    /\ getAncestors(role) = Seniors(role)
    /\ (role \in getAncestors(role)) <=>
         (\E s \in Range(parents[role]) : s = role \/ role \in Seniors(s))

\* C14 witness: getAncestors was called on a role that lies on a cycle through
\* another role and has two seniors, one of which lies on no cycle, while
\* some role is its own senior.
C14_Witness ==
  /\ last.op = "getAncestors"
  /\ Len(parents[last.role]) = 2
  /\ last.role \notin Range(parents[last.role])
  /\ last.role \in getAncestors(last.role)
  /\ \E r \in Roles : r \in Range(parents[r])
  /\ \E r \in getAncestors(last.role) : r \notin getAncestors(r)

\* C15: addParent called after assignments changes no erwp set and no
\* canAccess answer, so a senior added late stays denied where its junior
\* was granted; an answer turns from false to true only in a later
\* assignment for that action whose role closure, taken at that call,
\* holds the queried role.
C15_StaleRoleEdits ==
  [][/\ (parents' # parents) =>
          /\ erwp' = erwp
          /\ \A q \in Roles, m \in Nodes, X \in Actions :
                canAccess(q, m, X)' = canAccess(q, m, X)
     /\ \A q \in Roles, m \in Nodes, X \in Actions :
          (~canAccess(q, m, X) /\ canAccess(q, m, X)') =>
             /\ last'.op = "assign" /\ ~last'.noop
             /\ last'.action = X
             /\ \E role \in Roles :
                  role = last'.role /\ q \in {role} \cup Seniors(role)']_vars

\* C15 witness: a senior edge was added after the assignments, and a role
\* that is now senior to a role granted at a node is denied at that node
\* and at a descendant of it.
C15_Witness ==
  /\ last.op = "addParent" /\ edited
  /\ \E n \in Nodes, X \in Actions :
       \E role \in MapGet(rwp[n], X) :
         \E s \in Seniors(role) :
           /\ canAccess(role, n, X)
           /\ ~canAccess(s, n, X)
           /\ \E m \in DescendantsOf(n) : canAccess(role, m, X) /\ ~canAccess(s, m, X)

\* C16: once canAccess(q, m, Y) answers true it answers true after every
\* further permissionAssignment.
C16_AccessIsMonotone ==
  [][\A q \in Roles, m \in Nodes, Y \in Actions :
       canAccess(q, m, Y) => canAccess(q, m, Y)']_vars

\* C17: from every state of the constructed system, two assignments applied
\* in either order give the same canAccess answer for every role, node and
\* action.
C17_OrderIndependence ==
  resourceRoot # NoNode =>
    \A n1 \in Nodes, r1 \in Roles, X1 \in Actions :
      \A n2 \in Nodes, r2 \in Roles, X2 \in Actions :
        LET s12 == assignOn(assignOn(PermState, n1, r1, X1), n2, r2, X2)
            s21 == assignOn(assignOn(PermState, n2, r2, X2), n1, r1, X1)
        IN \A q \in Roles, m \in Nodes, Y \in Actions :
             canAccessOn(s12, q, m, Y) = canAccessOn(s21, q, m, Y)

\* C18: a permissionAssignment for action X changes no rwp or erwp entry of
\* any node for another action, changes rwp at the assigned node only, and
\* no step removes a role from an rwp or erwp set.
C18_ActionIsolation ==
  [][/\ (last'.op = "assign" /\ ~last'.noop) =>
          /\ \A m \in Nodes, Y \in Actions \ {last'.action} :
                /\ (Y \in DOMAIN rwp'[m]) = (Y \in DOMAIN rwp[m])
                /\ (Y \in DOMAIN erwp'[m]) = (Y \in DOMAIN erwp[m])
                /\ MapGet(rwp'[m], Y) = MapGet(rwp[m], Y)
                /\ MapGet(erwp'[m], Y) = MapGet(erwp[m], Y)
          /\ \A m \in Nodes \ {last'.node} : rwp'[m] = rwp[m]
     /\ \A m \in Nodes, Y \in Actions :
          /\ MapGet(rwp[m], Y) \subseteq MapGet(rwp'[m], Y)
          /\ MapGet(erwp[m], Y) \subseteq MapGet(erwp'[m], Y)]_vars

\* C18 witness: the last assignment gave a node its second action and its
\* role closure went on to an access child that is a boundary of its own.
C18_Witness ==
  /\ LastAssigned
  /\ DOMAIN rwp[last.node] = Actions
  /\ \E c \in Range(accn[last.node]) :
       /\ HasExplicit(c)
       /\ last.role \in MapGet(erwp[c], last.action)
       /\ last.role \notin MapGet(rwp[c], last.action)

====
